---- MODULE Spec2Model ----
(***************************************************************************)
(* Verification model of the Retrosheet play-descriptor parser              *)
(* (src/retrosheetParser.py).                                               *)
(*                                                                          *)
(* Python strings are modelled as sequences of one-character strings, so    *)
(* that splitting, stripping and pattern matching are computed character    *)
(* by character as the code does.  Every function of the parser is a pure   *)
(* function; each is an operator here, and an action applies it to an       *)
(* input drawn by Init.  A raised Python exception is the result            *)
(* [raised |-> TRUE, exc |-> <name>].                                       *)
(***************************************************************************)
EXTENDS Integers, Sequences, FiniteSets, TLC

VARIABLES
    pc,      \* "start" before the call, "done" after it returned or raised
    fn,      \* the function that was called ("none" before the call)
    input,   \* the argument of the call
    output   \* what the call returned, or the exception it raised

vars == <<pc, fn, input, output>>

----------------------------------------------------------------------------
(* Generic helpers over character sequences.                               *)

NoOutput == [raised |-> FALSE, value |-> <<>>]

Raise(e) == [raised |-> TRUE, exc |-> e]

Return(v) == [raised |-> FALSE, value |-> v]

RECURSIVE SeqsUpTo(_, _)
\* All sequences over the set A of length at most n.
SeqsUpTo(A, n) ==
    IF n = 0 THEN {<<>>}
    ELSE LET shorter == SeqsUpTo(A, n - 1)
         IN  shorter \cup {Append(s, c) : s \in shorter, c \in A}

RECURSIVE Flatten(_)
\* Concatenation of a sequence of sequences.
Flatten(ss) == IF ss = <<>> THEN <<>> ELSE Head(ss) \o Flatten(Tail(ss))

RECURSIVE SortedSeq(_)
\* The members of a finite set of integers in increasing order.
SortedSeq(S) ==
    IF S = {} THEN <<>>
    ELSE LET m == CHOOSE x \in S : \A y \in S : x <= y
         IN  <<m>> \o SortedSeq(S \ {m})

StartsWith(s, p) == Len(s) >= Len(p) /\ SubSeq(s, 1, Len(p)) = p

\* Python slice s[i:j] for 0 <= i <= j (clipped to the length of s).
Slice(s, i, j) == SubSeq(s, i + 1, IF j > Len(s) THEN Len(s) ELSE j)

RECURSIVE LStrip(_, _)
LStrip(s, chars) ==
    IF s # <<>> /\ Head(s) \in chars THEN LStrip(Tail(s), chars) ELSE s

RECURSIVE RStrip(_, _)
RStrip(s, chars) ==
    IF s # <<>> /\ s[Len(s)] \in chars
    THEN RStrip(SubSeq(s, 1, Len(s) - 1), chars) ELSE s

\* str.strip(chars): drops every leading and trailing character in chars.
Strip(s, chars) == RStrip(LStrip(s, chars), chars)

RECURSIVE SplitOnChar(_, _)
\* str.split(c) / re.split(c, s) for a one-character separator: every
\* occurrence cuts, empty pieces are kept.
SplitOnChar(s, c) ==
    IF \A i \in 1..Len(s) : s[i] # c THEN <<s>>
    ELSE LET k == CHOOSE i \in 1..Len(s) :
                      s[i] = c /\ \A j \in 1..(i - 1) : s[j] # c
         IN  <<SubSeq(s, 1, k - 1)>> \o SplitOnChar(SubSeq(s, k + 1, Len(s)), c)

Digits19 == {"1", "2", "3", "4", "5", "6", "7", "8", "9"}

Digits09 == Digits19 \cup {"0"}

----------------------------------------------------------------------------
(* split_sep_rspct_paren, _event_splitter, _subevent_splitter,             *)
(* _playSplitter.                                                          *)

PlaySeparators == {"/", "."}

PlusSeparator == {"+"}

\* re.compile("(^(sep))|((sep)$)").sub("", sentence): one separator at the
\* very start and one at the very end are dropped.
StripBoundarySeparators(sentence, separators) ==
    LET a == IF sentence # <<>> /\ Head(sentence) \in separators
             THEN Tail(sentence) ELSE sentence
    IN  IF a # <<>> /\ a[Len(a)] \in separators
        THEN SubSeq(a, 1, Len(a) - 1) ELSE a

\* zip(l, l[1:]) slices of the sentence.
CutAt(sentence, l) ==
    [k \in 1..(Len(l) - 1) |-> Slice(sentence, l[k], l[k + 1])]

RECURSIVE SepScan(_, _, _, _, _)
\* The for-loop of split_sep_rspct_paren from 1-based position i on, with
\* nb_brackets = nb and the list of cut offsets l, then the code after it.
SepScan(sentence, separators, i, nb, l) ==
    IF i > Len(sentence)
    THEN IF nb > 0 THEN Raise("Syntax error")
         ELSE Return(CutAt(sentence, Append(l, Len(sentence))))
    ELSE LET c   == sentence[i]
             nb2 == IF c = "(" THEN nb + 1 ELSE IF c = ")" THEN nb - 1 ELSE nb
             l2  == IF c # "(" /\ c # ")" /\ c \in separators /\ nb = 0
                    THEN Append(l, i - 1) ELSE l
         IN  IF nb2 < 0 THEN Raise("Syntax error")
             ELSE SepScan(sentence, separators, i + 1, nb2, l2)

RECURSIVE SepScanNoEndCheck(_, _, _, _, _)
\* Mutant of SepScan: the check for a missing closing parenthesis is gone.
SepScanNoEndCheck(sentence, separators, i, nb, l) ==
    IF i > Len(sentence)
    THEN Return(CutAt(sentence, Append(l, Len(sentence))))
    ELSE LET c   == sentence[i]
             nb2 == IF c = "(" THEN nb + 1 ELSE IF c = ")" THEN nb - 1 ELSE nb
             l2  == IF c # "(" /\ c # ")" /\ c \in separators /\ nb = 0
                    THEN Append(l, i - 1) ELSE l
         IN  IF nb2 < 0 THEN Raise("Syntax error")
             ELSE SepScanNoEndCheck(sentence, separators, i + 1, nb2, l2)

RECURSIVE SepScanAnyDepth(_, _, _, _, _)
\* Mutant of SepScan: a separator cuts at any depth.
SepScanAnyDepth(sentence, separators, i, nb, l) ==
    IF i > Len(sentence)
    THEN IF nb > 0 THEN Raise("Syntax error")
         ELSE Return(CutAt(sentence, Append(l, Len(sentence))))
    ELSE LET c   == sentence[i]
             nb2 == IF c = "(" THEN nb + 1 ELSE IF c = ")" THEN nb - 1 ELSE nb
             l2  == IF c # "(" /\ c # ")" /\ c \in separators
                    THEN Append(l, i - 1) ELSE l
         IN  IF nb2 < 0 THEN Raise("Syntax error")
             ELSE SepScanAnyDepth(sentence, separators, i + 1, nb2, l2)

split_no_end_check(sentence, separators) ==
    SepScanNoEndCheck(StripBoundarySeparators(sentence, separators),
                      separators, 1, 0, <<0>>)

split_any_depth(sentence, separators) ==
    SepScanAnyDepth(StripBoundarySeparators(sentence, separators),
                    separators, 1, 0, <<0>>)

split_sep_rspct_paren(sentence, separators) ==
    SepScan(StripBoundarySeparators(sentence, separators),
            separators, 1, 0, <<0>>)

RECURSIVE EventScan(_, _, _, _, _)
\* The for-loop of _event_splitter from 1-based position i on, with
\* nb_brackets = nb, prev_char_right_par = prev and cut offsets l.
EventScan(sentence, i, nb, prev, l) ==
    IF i > Len(sentence)
    THEN IF nb > 0 THEN Raise("Syntax error")
         ELSE Return(CutAt(sentence, Append(l, Len(sentence))))
    ELSE LET c   == sentence[i]
             nb2 == IF c = "(" THEN nb + 1 ELSE IF c = ")" THEN nb - 1 ELSE nb
             l2  == IF c # "(" /\ c # ")" /\ prev /\ nb = 0
                    THEN Append(l, i - 1) ELSE l
         IN  IF nb2 < 0 THEN Raise("Syntax error")
             ELSE EventScan(sentence, i + 1, nb2, c = ")", l2)

RECURSIVE EventScanCutBeforeParen(_, _, _, _, _)
\* Mutant of EventScan: a boundary is also placed before an opening
\* parenthesis that follows a closed bracket.
EventScanCutBeforeParen(sentence, i, nb, prev, l) ==
    IF i > Len(sentence)
    THEN IF nb > 0 THEN Raise("Syntax error")
         ELSE Return(CutAt(sentence, Append(l, Len(sentence))))
    ELSE LET c   == sentence[i]
             nb2 == IF c = "(" THEN nb + 1 ELSE IF c = ")" THEN nb - 1 ELSE nb
             l2  == IF c # ")" /\ prev /\ nb = 0
                    THEN Append(l, i - 1) ELSE l
         IN  IF nb2 < 0 THEN Raise("Syntax error")
             ELSE EventScanCutBeforeParen(sentence, i + 1, nb2, c = ")", l2)

event_splitter_cut_before_paren(sentence) ==
    EventScanCutBeforeParen(sentence, 1, 0, FALSE, <<0>>)

_event_splitter(sentence) == EventScan(sentence, 1, 0, FALSE, <<0>>)

RECURSIVE SubeventChunks(_)
\* [i.strip('+') for j in splits for i in _event_splitter(j)]: the first
\* chunk whose scan raises ends the comprehension with that exception.
SubeventChunks(splits) ==
    IF splits = <<>> THEN Return(<<>>)
    ELSE LET first == _event_splitter(Head(splits))
         IN  IF first.raised THEN first
             ELSE LET rest == SubeventChunks(Tail(splits))
                  IN  IF rest.raised THEN rest
                      ELSE Return([k \in 1..Len(first.value) |->
                                       Strip(first.value[k], {"+"})]
                                  \o rest.value)

_subevent_splitter(event) ==
    LET splits == split_sep_rspct_paren(event, PlusSeparator)
    IN  IF splits.raised THEN splits ELSE SubeventChunks(splits.value)

\* re.sub("^\/", "", m)
DropLeadingSlash(m) == IF m # <<>> /\ Head(m) = "/" THEN Tail(m) ELSE m

_playSplitter(play) ==
    LET l == split_sep_rspct_paren(play, PlaySeparators)
    IN  IF l.raised THEN l
        ELSE LET segs == l.value
                 n    == Len(segs)
                 last == segs[n]
                 dot  == last # <<>> /\ Head(last) = "."
                 advs == IF dot THEN SplitOnChar(Strip(last, {"."}), ";")
                         ELSE <<>>
                 mods == IF dot THEN SubSeq(segs, 2, n - 1)
                         ELSE SubSeq(segs, 2, n)
             IN  Return([event |-> segs[1],
                         mods  |-> [k \in 1..Len(mods) |->
                                        DropLeadingSlash(mods[k])],
                         advs  |-> advs])

----------------------------------------------------------------------------
(* _subeventParser: the ordered, first-match-wins classification chain.    *)

\* "(1)", "(2)", "(3)", "(B)"
IsBaseGroup(r) ==
    Len(r) = 3 /\ r[1] = "(" /\ r[2] \in {"1", "2", "3", "B"} /\ r[3] = ")"

\* Length of the run of characters of the set chars that starts at position i.
RECURSIVE RunLength(_, _, _)
RunLength(s, i, chars) ==
    IF i <= Len(s) /\ s[i] \in chars THEN 1 + RunLength(s, i + 1, chars) ELSE 0

\* re.match("[1-9]+(\([1-3B]\))?$", s)
MatchesPlainOut(s) ==
    LET n    == RunLength(s, 1, Digits19)
        rest == SubSeq(s, n + 1, Len(s))
    IN  n >= 1 /\ (rest = <<>> \/ IsBaseGroup(rest))

\* re.search("E[1-9]", r) restricted to positions from i on.
HasErrorCodeFrom(r, i) ==
    \E k \in i..(Len(r) - 1) : r[k] = "E" /\ r[k + 1] \in Digits19

\* re.match("[1-9]+(\([1-3B]\))?.*E[1-9]", s): one digit, then an error
\* code anywhere behind it.
MatchesFieldingError(s) ==
    Len(s) >= 1 /\ s[1] \in Digits19 /\ HasErrorCodeFrom(s, 2)

\* re.match("X[1-9]*$", s) for the letter X.
MatchesLetterDigits(s, letter) ==
    /\ Len(s) >= 1
    /\ s[1] = letter
    /\ RunLength(s, 2, Digits19) = Len(s) - 1

\* Whether the literal lit followed by one character of last sits at i.
LiteralThenOneOf(s, i, lit, last) ==
    /\ i + Len(lit) <= Len(s)
    /\ SubSeq(s, i, i + Len(lit) - 1) = lit
    /\ s[i + Len(lit)] \in last

RECURSIVE FindAllLiteral(_, _, _, _)
\* re.findall("<lit>[<last>]", s) from position i on: the matched strings.
FindAllLiteral(s, i, lit, last) ==
    IF i > Len(s) THEN <<>>
    ELSE IF LiteralThenOneOf(s, i, lit, last)
         THEN <<SubSeq(s, i, i + Len(lit))>>
              \o FindAllLiteral(s, i + Len(lit) + 1, lit, last)
         ELSE FindAllLiteral(s, i + 1, lit, last)

\* The optional group (\([1-9]*E[1-9])? tried at position j: the captured
\* text, or the empty string when the group does not take part in the match.
ErrorGroupAt(s, j) ==
    IF j <= Len(s) /\ s[j] = "("
    THEN LET n == RunLength(s, j + 1, Digits19)
             e == j + 1 + n
         IN  IF e + 1 <= Len(s) /\ s[e] = "E" /\ s[e + 1] \in Digits19
             THEN SubSeq(s, j, e + 1) ELSE <<>>
    ELSE <<>>

RECURSIVE FindAllGroup(_, _, _, _)
\* re.findall("<lit>[<last>](\([1-9]*E[1-9])?", s) from position i on.  The
\* pattern has one capturing group, so findall returns what the group
\* captured for each match, not the matched text.
FindAllGroup(s, i, lit, last) ==
    IF i > Len(s) THEN <<>>
    ELSE IF LiteralThenOneOf(s, i, lit, last)
         THEN LET g == ErrorGroupAt(s, i + Len(lit) + 1)
              IN  <<g>> \o FindAllGroup(s, i + Len(lit) + 1 + Len(g), lit, last)
         ELSE FindAllGroup(s, i + 1, lit, last)

RECURSIVE RemoveAll(_, _)
\* re.sub(lit, "", r) for a literal lit.
RemoveAll(r, lit) ==
    IF Len(r) < Len(lit) THEN r
    ELSE IF SubSeq(r, 1, Len(lit)) = lit
         THEN RemoveAll(SubSeq(r, Len(lit) + 1, Len(r)), lit)
         ELSE <<Head(r)>> \o RemoveAll(Tail(r), lit)

\* The base a runner was on when caught stealing the base bbs.
BaseBefore(bbs) ==
    IF bbs = <<"H">> THEN <<"3">> ELSE IF bbs = <<"3">> THEN <<"2">> ELSE <<"1">>

Parsed(p, outs, advs) ==
    [basicPlay |-> p, playersOut |-> outs, implicitAdvances |-> advs]

AdvB1 == <<"B", "-", "1">>
AdvB2 == <<"B", "-", "2">>
AdvB3 == <<"B", "-", "3">>
AdvBH == <<"B", "-", "H">>

RECURSIVE FindAllBaseGroups(_, _)
\* re.findall("\([1-3B]\)", s) from position i on.
FindAllBaseGroups(s, i) ==
    IF i + 2 > Len(s) THEN <<>>
    ELSE IF IsBaseGroup(SubSeq(s, i, i + 2))
         THEN <<SubSeq(s, i, i + 2)>> \o FindAllBaseGroups(s, i + 3)
         ELSE FindAllBaseGroups(s, i + 1)

\* The branch for a plain out: the bracketed base, or the batter.
PlainOut(s) ==
    LET found == FindAllBaseGroups(s, 1)
        pOut  == [k \in 1..Len(found) |-> Strip(found[k], {"(", ")"})]
    IN  Parsed("Out", IF Len(pOut) = 0 THEN << <<"B">> >> ELSE <<pOut[1]>>, <<>>)

CaughtStealing(s) ==
    LET found == FindAllLiteral(s, 1, <<"C", "S">>, {"2", "3", "H"})
    IN  Parsed("Runner Caught Stealing",
               [k \in 1..Len(found) |-> BaseBefore(Strip(found[k], {"C", "S"}))],
               <<>>)

PickedOff(s) ==
    LET found  == FindAllGroup(s, 1, <<"P", "O">>, {"1", "2", "3"})
        isErr  == [k \in 1..Len(found) |-> HasErrorCodeFrom(found[k], 1)]
        okIdx  == SortedSeq({k \in 1..Len(found) : ~isErr[k]})
    IN  Parsed(IF \E k \in 1..Len(found) : isErr[k]
               THEN "Picked Off Base - Error" ELSE "Picked Off Base",
               [k \in 1..Len(okIdx) |-> RemoveAll(found[okIdx[k]], <<"P", "O">>)],
               <<>>)

PickedOffCaughtStealing(s) ==
    LET found  == FindAllGroup(s, 1, <<"P", "O", "C", "S">>, {"2", "3", "H"})
        isErr  == [k \in 1..Len(found) |-> HasErrorCodeFrom(found[k], 1)]
        inner  == FindAllLiteral(s, 1, <<"P", "O", "C", "S">>, {"2", "3", "H"})
        bases  == [k \in 1..Len(inner) |->
                      BaseBefore(<<Strip(inner[k], {"P", "O", "C", "S"})[1]>>)]
        nOk    == Cardinality({k \in 1..Len(found) : ~isErr[k]})
    IN  Parsed(IF \E k \in 1..Len(found) : isErr[k]
               THEN "Picked Off Base Caught Stealing - Error"
               ELSE "Picked Off Base Caught Stealing",
               Flatten([k \in 1..nOk |-> bases]),
               <<>>)

_subeventParser(s) ==
    IF MatchesPlainOut(s) THEN PlainOut(s)
    ELSE IF MatchesFieldingError(s) THEN Parsed("Error", <<>>, <<>>)
    ELSE IF StartsWith(s, <<"F", "C">>) THEN Parsed("Fielder's Choice", <<>>, <<AdvB1>>)
    ELSE IF s = <<"C">> THEN Parsed("Interference", <<>>, <<AdvB1>>)
    ELSE IF StartsWith(s, <<"N", "P">>) THEN Parsed("No Play", <<>>, <<>>)
    ELSE IF StartsWith(s, <<"K">>) THEN Parsed("Strikeout", << <<"B">> >>, <<>>)
    ELSE IF Len(s) >= 2 /\ s[1] = "H" /\ s[2] # "P"
         THEN Parsed("Hit - Home Run", <<>>, <<AdvBH>>)
    ELSE IF StartsWith(s, <<"H", "P">>) THEN Parsed("Hit by Pitch", <<>>, <<AdvB1>>)
    ELSE IF MatchesLetterDigits(s, "S") THEN Parsed("Hit - Single", <<>>, <<AdvB1>>)
    ELSE IF MatchesLetterDigits(s, "D") THEN Parsed("Hit - Double", <<>>, <<AdvB2>>)
    ELSE IF StartsWith(s, <<"D", "G", "R">>)
         THEN Parsed("Hit - Ground Rule Double", <<>>, <<AdvB2>>)
    ELSE IF MatchesLetterDigits(s, "T") THEN Parsed("Hit - Triple", <<>>, <<AdvB3>>)
    ELSE IF LiteralThenOneOf(s, 1, <<"C", "S">>, {"2", "3", "H"}) THEN CaughtStealing(s)
    ELSE IF StartsWith(s, <<"W", "P">>) THEN Parsed("Wild Pitch", <<>>, <<>>)
    ELSE IF s = <<"W">> THEN Parsed("Walk", <<>>, <<AdvB1>>)
    ELSE IF StartsWith(s, <<"I", "W">>) THEN Parsed("Intentional Walk", <<>>, <<AdvB1>>)
    ELSE IF StartsWith(s, <<"P", "B">>) THEN Parsed("Passed Ball", <<>>, <<>>)
    ELSE IF StartsWith(s, <<"S", "B">>) THEN Parsed("Stolen Base", <<>>, <<>>)
    ELSE IF LiteralThenOneOf(s, 1, <<"E">>, Digits09) THEN Parsed("Error", <<>>, <<>>)
    ELSE IF StartsWith(s, <<"D", "I">>) THEN Parsed("Defensive Indifference", <<>>, <<>>)
    ELSE IF LiteralThenOneOf(s, 1, <<"P", "O">>, {"1", "2", "3"}) THEN PickedOff(s)
    ELSE IF LiteralThenOneOf(s, 1, <<"P", "O", "C", "S">>, {"2", "3", "H"})
         THEN PickedOffCaughtStealing(s)
    ELSE IF StartsWith(s, <<"B", "K">>) THEN Parsed("Balk", <<>>, <<>>)
    ELSE IF StartsWith(s, <<"O", "A">>) THEN Parsed("Other Baserunner Advance", <<>>, <<>>)
    ELSE IF StartsWith(s, <<"F", "L", "E">>) THEN Parsed("Error on Foul Flyball", <<>>, <<>>)
    ELSE Parsed("", <<>>, <<>>)

----------------------------------------------------------------------------
(* basicPlayDesc, fullPlayDesc, playersOut, playerAdvances, runsScored,    *)
(* enhancePlays.                                                           *)

FromBases == {"1", "2", "3", "B"}

DestBases == {"1", "2", "3", "H"}

NumberOfOuts(subevents) ==
    Cardinality({k \in 1..Len(subevents) : subevents[k].basicPlay = "Out"})

\* Mutant of basicPlayDesc: two outs are described as a plain out.
basicPlayDescNoDouble(subevents) ==
    IF Len(subevents) = 0 THEN Raise("ValueError")
    ELSE IF Len(subevents) = 1 THEN Return(subevents[1].basicPlay)
    ELSE IF subevents[1].basicPlay = "Out"
         THEN LET nOuts == NumberOfOuts(subevents)
              IN  IF nOuts \in {1, 2} THEN Return("Out")
                  ELSE IF nOuts = 3 THEN Return("Triple Play")
                  ELSE Raise("UnboundLocalError")
    ELSE Return(subevents[1].basicPlay)

basicPlayDesc(subevents) ==
    IF Len(subevents) = 0 THEN Raise("ValueError")
    ELSE IF Len(subevents) = 1 THEN Return(subevents[1].basicPlay)
    ELSE IF subevents[1].basicPlay = "Out"
         THEN LET nOuts == NumberOfOuts(subevents)
              IN  IF nOuts = 1 THEN Return("Out")
                  ELSE IF nOuts = 2 THEN Return("Double Play")
                  ELSE IF nOuts = 3 THEN Return("Triple Play")
                  ELSE Raise("UnboundLocalError")
    ELSE Return(subevents[1].basicPlay)

RECURSIVE JoinLabels(_)
\* " - ".join(labels), kept as the sequence of its parts.
JoinLabels(labels) ==
    IF Len(labels) <= 1 THEN labels
    ELSE <<Head(labels), " - ">> \o JoinLabels(Tail(labels))

fullPlayDesc(subevents) ==
    IF Len(subevents) = 0 THEN Raise("ValueError")
    ELSE IF Len(subevents) = 1 THEN Return(<<subevents[1].basicPlay>>)
    ELSE IF subevents[1].basicPlay = "Out"
         THEN LET nOuts == NumberOfOuts(subevents)
              IN  IF nOuts = 1 THEN Return(<<"Out">>)
                  ELSE IF nOuts = 2 THEN Return(<<"Double Play">>)
                  ELSE IF nOuts = 3 THEN Return(<<"Triple Play">>)
                  ELSE Raise("UnboundLocalError")
    ELSE Return(JoinLabels([k \in 1..Len(subevents) |-> subevents[k].basicPlay]))

\* re.match("[1-3B]X.*E", i)
MatchesOutWithE(i) ==
    /\ Len(i) >= 3
    /\ i[1] \in FromBases
    /\ i[2] = "X"
    /\ \E k \in 3..Len(i) : i[k] = "E"

\* re.match("[1-3B]X", i) and re.match("[1-3B]-", i)
MatchesFromThen(i, ch) == Len(i) >= 2 /\ i[1] \in FromBases /\ i[2] = ch

SeqRange(q) == {q[k] : k \in 1..Len(q)}

\* Mutant of playersOut: an error-annotated out attempt still counts as out.
playersOutIgnoringErrors(playSplit, subeventsParsed) ==
    LET subeventsOuts ==
            Flatten([k \in 1..Len(subeventsParsed) |-> subeventsParsed[k].playersOut])
        advs      == playSplit.advs
        advNotOut == {<<i[1]>> : i \in {j \in SeqRange(advs) :
                          ~MatchesFromThen(j, "X") /\ MatchesFromThen(j, "-")}}
        advOuts   == {<<i[1]>> : i \in {j \in SeqRange(advs) : MatchesFromThen(j, "X")}}
    IN  (advOuts \cup SeqRange(subeventsOuts)) \ advNotOut

\* The list the code returns is list(set(...)): its order is arbitrary and
\* only its members and its length are used, so it is kept as the set.
playersOut(playSplit, subeventsParsed) ==
    LET subeventsOuts ==
            Flatten([k \in 1..Len(subeventsParsed) |-> subeventsParsed[k].playersOut])
        advs      == playSplit.advs
        advNotOut == {<<i[1]>> : i \in {j \in SeqRange(advs) :
                          \/ MatchesOutWithE(j)
                          \/ ~MatchesFromThen(j, "X") /\ MatchesFromThen(j, "-")}}
        advOuts   == {<<i[1]>> : i \in {j \in SeqRange(advs) :
                          ~MatchesOutWithE(j) /\ MatchesFromThen(j, "X")}}
    IN  (advOuts \cup SeqRange(subeventsOuts)) \ advNotOut

\* re.match("[1-3B]X[1-3H].*E", i)
MatchesErrorAdvance(i) ==
    /\ Len(i) >= 4
    /\ i[1] \in FromBases
    /\ i[2] = "X"
    /\ i[3] \in DestBases
    /\ \E k \in 4..Len(i) : i[k] = "E"

\* re.match("[1-3B]-[1-3H]", i)
MatchesSafeAdvance(i) ==
    Len(i) >= 3 /\ i[1] \in FromBases /\ i[2] = "-" /\ i[3] \in DestBases

\* The results playerAdvances can give.  finalAdvs is a list made from a
\* set, so when two of its tokens start at the same base the entry that the
\* dict comprehension keeps for that base depends on the set's iteration
\* order: every choice is a possible result.  i[0] == j[0] raises IndexError
\* on an empty advance token.
playerAdvances(playSplit, subeventsParsed) ==
    LET implicitAdvances ==
            Flatten([k \in 1..Len(subeventsParsed) |->
                         subeventsParsed[k].implicitAdvances])
        advs       == playSplit.advs
        advsNotOut == {Slice(i, 0, 3) : i \in {j \in SeqRange(advs) :
                           MatchesErrorAdvance(j) \/ MatchesSafeAdvance(j)}}
        ria        == {i \in SeqRange(implicitAdvances) :
                           \E j \in SeqRange(advs) : i[1] = j[1]}
        finalAdvs  == (advsNotOut \cup SeqRange(implicitAdvances)) \ ria
        keys       == {<<i[1]>> : i \in finalAdvs}
    IN  IF implicitAdvances # <<>> /\ <<>> \in SeqRange(advs)
        THEN {Raise("IndexError")}
        ELSE {Return(d) : d \in {f \in [keys -> {<<x>> : x \in DestBases}] :
                 \A k \in keys : \E i \in finalAdvs : <<i[1]>> = k /\ <<i[3]>> = f[k]}}

runsScored(advances) == Cardinality({k \in DOMAIN advances : advances[k] = <<"H">>})

\* The columns of one row that are computed from subeventParsed.
ColumnsFromParsed(ps, sub, par) ==
    <<ps, sub, par,
      IF par.raised THEN par ELSE basicPlayDesc(par.value),
      IF par.raised THEN par ELSE fullPlayDesc(par.value),
      IF par.raised THEN par ELSE Return(playersOut(ps.value, par.value))>>

ColumnsFromSubevents(ps, sub) ==
    ColumnsFromParsed(ps, sub,
        IF sub.raised THEN sub
        ELSE Return([k \in 1..Len(sub.value) |-> _subeventParser(sub.value[k])]))

ColumnsFromPlaySplit(ps) ==
    ColumnsFromSubevents(ps,
        IF ps.raised THEN ps ELSE _subevent_splitter(ps.value.event))

\* The columns playSplit, subevents, subeventParsed, basicPlayDesc,
\* fullPlayDesc and playersOut of one row, each as returned or raised.
RowColumns(row) == ColumnsFromPlaySplit(_playSplitter(row.Play))

\* The exception that ends enhancePlays before playerAdvances is reached, if
\* any: columns are assigned one after the other, each over all rows in
\* order, so it is the first failing row of the first failing column.
RECURSIVE FirstRaise(_, _, _)
FirstRaise(cols, c, r) ==
    IF c > 6 THEN Return(<<>>)
    ELSE IF r > Len(cols) THEN FirstRaise(cols, c + 1, 1)
    ELSE IF cols[r][c].raised THEN cols[r][c]
    ELSE FirstRaise(cols, c, r + 1)

DerivedRow(row, cols, adv) ==
    [Play           |-> row.Play,
     playSplit      |-> cols[1].value,
     subevents      |-> cols[2].value,
     subeventParsed |-> cols[3].value,
     basicPlayDesc  |-> cols[4].value,
     fullPlayDesc   |-> cols[5].value,
     playersOut     |-> cols[6].value,
     outsOnPlay     |-> Cardinality(cols[6].value),
     playerAdvances |-> adv,
     runsScored     |-> runsScored(adv)]

\* The columns playerAdvances and runsScored: advSets[r] holds the results
\* playerAdvances can give on row r.
TablesWithAdvances(rows, cols, advSets) ==
    IF \E r \in 1..Len(rows) : Raise("IndexError") \in advSets[r]
    THEN {Raise("IndexError")}
    ELSE {Return([r \in 1..Len(rows) |-> DerivedRow(rows[r], cols[r], choice[r].value)]) :
          choice \in {ch \in [1..Len(rows) -> UNION {advSets[r] : r \in 1..Len(rows)}] :
                          \A r \in 1..Len(rows) : ch[r] \in advSets[r]}}

TablesFromColumns(rows, cols, early) ==
    IF early.raised THEN {early}
    ELSE TablesWithAdvances(rows, cols,
             [r \in 1..Len(rows) |-> playerAdvances(cols[r][1].value, cols[r][3].value)])

TablesFromRows(rows, cols) == TablesFromColumns(rows, cols, FirstRaise(cols, 1, 1))

\* The results enhancePlays can give on a table of rows [Type, Play]: the
\* new table, or the first exception raised while a column is assigned.
\* There is no try/except around any column, so the exception leaves
\* enhancePlays; the model names it after the parser function that raised.
enhancePlays(plays) ==
    LET rows == SelectSeq(plays, LAMBDA z : z.Type = "play")
    IN  TablesFromRows(rows, [r \in 1..Len(rows) |-> RowColumns(rows[r])])

----------------------------------------------------------------------------
(* RetrosheetEventFormatter.                                               *)

LitId    == <<"i", "d">>
LitPlay  == <<"p", "l", "a", "y">>
LitCom   == <<"c", "o", "m">>
LitInfo  == <<"i", "n", "f", "o">>
LitStart == <<"s", "t", "a", "r", "t">>
LitSub   == <<"s", "u", "b">>

\* j.startswith("<kind>,"), which is also what re.match("<kind>,", j) tests.
IsLine(j, kind) == StartsWith(j, kind \o <<",">>)

\* The row a com line becomes: 'com', six empty fields, and the second
\* comma-separated field of the line without its quotes, '$' and blanks.
ComRow(j) ==
    <<LitCom, <<>>, <<>>, <<>>, <<>>, <<>>, <<>>,
      Strip(Strip(SplitOnChar(j, ",")[2], {"\""}), {"$", " "})>>

RECURSIVE CommentScan(_, _, _)
\* The loop over playsAndComments from 1-based position i on, with the
\* carry t: a play line becomes its fields and an empty comment, a com line
\* becomes its row and its text is appended to the comment of the row t
\* places before it.
CommentScan(pac, i, t) ==
    IF i > Len(pac) THEN pac
    ELSE IF IsLine(pac[i], LitPlay)
         THEN CommentScan([pac EXCEPT ![i] = Append(SplitOnChar(pac[i], ","), <<>>)],
                          i + 1, 1)
    ELSE LET row    == ComRow(pac[i])
             pac2   == [pac EXCEPT ![i] = row]
             target == i - t
             merged == Strip(pac2[target][8] \o <<" ">> \o row[8], {" "})
         IN  IF t >= 0
             THEN CommentScan([pac2 EXCEPT ![target][8] = merged], i + 1, t + 1)
             ELSE CommentScan(pac2, i + 1, t)

\* The number of play lines among the first n lines, less one.
PlayIndexBefore(lst, n) ==
    Cardinality({k \in 1..n : IsLine(lst[k], LitPlay)}) - 1

RetrosheetEventFormatter(lst) ==
    LET ID == SplitOnChar(lst[1], ",")
        playsAndComments ==
            CommentScan(SelectSeq(lst, LAMBDA j : IsLine(j, LitPlay) \/ IsLine(j, LitCom)),
                        1, 0)
        fieldsOf(kind) ==
            LET sel == SelectSeq(lst, LAMBDA j : IsLine(j, kind))
            IN  [k \in 1..Len(sel) |-> Tail(SplitOnChar(sel[k], ","))]
        subIdx == SortedSeq({k \in 1..Len(lst) : IsLine(lst[k], LitSub)})
    IN  IF ID[1] # LitId THEN Raise("ValueError")
        ELSE IF Len(ID) < 2 THEN Raise("IndexError")
        ELSE Return([id       |-> ID[2],
                     info     |-> fieldsOf(LitInfo),
                     plays    |-> SelectSeq(playsAndComments, LAMBDA j : j[1] = LitPlay),
                     starters |-> fieldsOf(LitStart),
                     subs     |-> [k \in 1..Len(subIdx) |->
                                      Append(Tail(SplitOnChar(lst[subIdx[k]], ",")),
                                             PlayIndexBefore(lst, subIdx[k]))]])

----------------------------------------------------------------------------
(* Specification of the splitters: Init draws the string, one action per   *)
(* function applies it.                                                    *)

MaxLen == 4

SplitAlphabet == {"(", ")", "/", ".", "+", ";", "K"}

\* "S9.2-H"
PlayS9 == <<"S", "9", ".", "2", "-", "H">>

\* "46(1)(E6)63"
Event46 == <<"4", "6", "(", "1", ")", "(", "E", "6", ")", "6", "3">>

\* "46(1"
Event46Open == <<"4", "6", "(", "1">>

\* "K+WP/X(.;/).1-2;B-1"
PlayLong == <<"K", "+", "W", "P", "/", "X", "(", ".", ";", "/", ")", ".",
              "1", "-", "2", ";", "B", "-", "1">>

SplitInputs ==
    SeqsUpTo(SplitAlphabet, MaxLen) \cup {PlayS9, Event46, Event46Open, PlayLong}

InitSplit ==
    /\ pc = "start"
    /\ fn = "none"
    /\ input \in SplitInputs
    /\ output = NoOutput

Call(name, result) ==
    /\ pc = "start"
    /\ pc' = "done"
    /\ fn' = name
    /\ output' = result
    /\ UNCHANGED input

CallSplitSepRspctParen ==
    \E separators \in {PlaySeparators, PlusSeparator} :
        Call("split_sep_rspct_paren", split_sep_rspct_paren(input, separators))

CallEventSplitter == Call("_event_splitter", _event_splitter(input))

CallSubeventSplitter == Call("_subevent_splitter", _subevent_splitter(input))

CallPlaySplitter == Call("_playSplitter", _playSplitter(input))

NextSplit ==
    \/ CallSplitSepRspctParen
    \/ CallEventSplitter
    \/ CallSubeventSplitter
    \/ CallPlaySplitter

SpecSplit == InitSplit /\ [][NextSplit]_vars

----------------------------------------------------------------------------
(* Specification of the classifier: Init draws a sub-event string, made of *)
(* an event code and a tail (fielders, a bracketed base, a bracketed        *)
(* fielder list with or without an error code).                            *)

MaxFielders == 2

FielderDigits == {"2", "6"}

FielderLists == SeqsUpTo(FielderDigits, MaxFielders)

\* The event codes the classifier is tried on; X is an unknown code.
SubeventHeads ==
    {<<"6">>, <<"6", "4">>, <<"F", "C">>, <<"C">>, <<"N", "P">>, <<"K">>, <<"H">>,
     <<"H", "R">>, <<"H", "P">>, <<"S">>, <<"D">>, <<"D", "G", "R">>, <<"T">>,
     <<"C", "S", "2">>, <<"C", "S", "H">>, <<"W", "P">>, <<"W">>, <<"I", "W">>,
     <<"P", "B">>, <<"S", "B", "2">>, <<"E">>, <<"D", "I">>, <<"P", "O", "1">>,
     <<"P", "O", "2">>, <<"P", "O", "3">>, <<"P", "O", "C", "S", "2">>,
     <<"P", "O", "C", "S", "H">>, <<"B", "K">>, <<"O", "A">>, <<"F", "L", "E">>,
     <<"X">>}

SubeventTails ==
    FielderLists
    \cup {<<"(">> \o ds \o <<")">> : ds \in FielderLists \ {<<>>}}
    \cup {<<"(">> \o ds \o <<"E", d, ")">> : ds \in FielderLists, d \in FielderDigits}
    \cup {<<"(", "1", ")">>, <<"(", "B", ")">>}

SubeventInputs == {h \o t : h \in SubeventHeads, t \in SubeventTails}

InitClassify ==
    /\ pc = "start"
    /\ fn = "none"
    /\ input \in SubeventInputs
    /\ output = NoOutput

CallSubeventParser == Call("_subeventParser", Return(_subeventParser(input)))

NextClassify == CallSubeventParser

SpecClassify == InitClassify /\ [][NextClassify]_vars

----------------------------------------------------------------------------
(* Specification of enhancePlays: Init draws the table of plays, either one *)
(* play made of an event and an advances clause, or a game of a few plays   *)
(* some of which have unbalanced brackets.                                  *)

MaxAdvs == 2

MaxPlays == 3

\* Explicit advance tokens: a successful advance, an out, an out attempt
\* with an error, for each of B to 1, B to H, 1 to 2 and 2 to H; and an out
\* annotated with the fielders that made it.
AdvanceTokens ==
    {<<f, "-", d>> : f \in {"B"}, d \in {"1", "H"}}
    \cup {<<f, "X", d>> : f \in {"B"}, d \in {"1", "H"}}
    \cup {<<f, "X", d, "(", "E", "5", ")">> : f \in {"B"}, d \in {"1", "H"}}
    \cup {<<"1", "-", "2">>, <<"1", "X", "2">>, <<"1", "X", "2", "(", "E", "5", ")">>,
          <<"2", "-", "H">>, <<"2", "X", "H">>, <<"2", "X", "H", "(", "E", "5", ")">>,
          <<"1", "X", "2", "(", "2", "6", ")">>}

AdvanceClauses == SeqsUpTo(AdvanceTokens, MaxAdvs)

\* Events of two adjoining plain outs: 64(b)3 and 64(b)3(c).
TwoOutEvents ==
    {<<"6", "4", "(", b, ")", "3">> : b \in {"1", "2", "B"}}
    \cup {<<"6", "4", "(", b, ")", "3", "(", c, ")">> : b \in {"1", "2", "B"}, c \in {"1", "B"}}

\* Other events, one with a modifier.
OtherEvents ==
    {<<"S", "9">>, <<"F", "C", "6">>, <<"H", "R">>, <<"W">>, <<"K">>, <<"K", "+", "W", "P">>,
     <<"6", "4", "(", "1", ")">>, <<"C", "S", "2", "(", "2", "6", ")">>,
     <<"P", "O", "1", "(", "1", "3", ")">>, <<"E", "6">>, <<"D", "7", "/", "L">>,
     <<"4", "6", "(", "1", ")", "(", "E", "6", ")", "6", "3">>}

RECURSIVE JoinWith(_, _)
JoinWith(parts, sep) ==
    IF parts = <<>> THEN <<>>
    ELSE IF Len(parts) = 1 THEN parts[1]
    ELSE parts[1] \o <<sep>> \o JoinWith(Tail(parts), sep)

PlayString(event, advs) ==
    IF advs = <<>> THEN event ELSE event \o <<".">> \o JoinWith(advs, ";")

PlayRow(play) == [Type |-> "play", Play |-> play]

SinglePlayTables ==
    {<<PlayRow(PlayString(e, a))>> : e \in TwoOutEvents \cup OtherEvents, a \in AdvanceClauses}

\* The plays of a game: S9.2-H, K, 64(1)3/GDP, 46(1, W)
GamePlays ==
    {<<"S", "9", ".", "2", "-", "H">>, <<"K">>, <<"6", "4", "(", "1", ")", "3", "/", "G", "D", "P">>,
     <<"4", "6", "(", "1">>, <<"W", ")">>}

GameTables ==
    {[k \in 1..Len(g) |-> PlayRow(g[k])] : g \in SeqsUpTo(GamePlays, MaxPlays) \ {<<>>}}

InitEnhance ==
    /\ pc = "start"
    /\ fn = "none"
    /\ input \in SinglePlayTables \cup GameTables
    /\ output = NoOutput

CallEnhancePlays == \E result \in enhancePlays(input) : Call("enhancePlays", result)

NextEnhance == CallEnhancePlays

SpecEnhance == InitEnhance /\ [][NextEnhance]_vars

----------------------------------------------------------------------------
(* Specification of the formatter: Init draws the lines of one game file.  *)

MaxLines == 3

\* "id,G1"
IdLine == <<"i", "d", ",", "G", "1">>

\* "version,2": a file that does not start with its id record.
VersionLine == <<"v", "e", "r", "s", "i", "o", "n", ",", "2">>

\* play,1,0,a,00,X,K  play,1,1,b,00,X,S9  com,"x"  com,"y z"  com,"a,b"  info,k,v  start,a,A,0,1,2  sub,c,C,0,1,2
BodyLines ==
    {<<"p", "l", "a", "y", ",", "1", ",", "0", ",", "a", ",", "0", "0", ",", "X", ",", "K">>,
     <<"p", "l", "a", "y", ",", "1", ",", "1", ",", "b", ",", "0", "0", ",", "X", ",", "S", "9">>,
     <<"c", "o", "m", ",", "\"", "x", "\"">>,
     <<"c", "o", "m", ",", "\"", "y", " ", "z", "\"">>,
     <<"c", "o", "m", ",", "\"", "a", ",", "b", "\"">>,
     <<"i", "n", "f", "o", ",", "k", ",", "v">>,
     <<"s", "t", "a", "r", "t", ",", "a", ",", "A", ",", "0", ",", "1", ",", "2">>,
     <<"s", "u", "b", ",", "c", ",", "C", ",", "0", ",", "1", ",", "2">>}

GameFiles ==
    {<<first>> \o body : first \in {IdLine, VersionLine}, body \in SeqsUpTo(BodyLines, MaxLines)}

InitFormat ==
    /\ pc = "start"
    /\ fn = "none"
    /\ input \in GameFiles
    /\ output = NoOutput

CallRetrosheetEventFormatter ==
    Call("RetrosheetEventFormatter", RetrosheetEventFormatter(input))

NextFormat == CallRetrosheetEventFormatter

SpecFormat == InitFormat /\ [][NextFormat]_vars

----------------------------------------------------------------------------
(* Properties of the splitters.                                            *)

\* Parenthesis depth after the first k characters of s.
Depth(s, k) ==
    Cardinality({i \in 1..k : s[i] = "("}) - Cardinality({i \in 1..k : s[i] = ")"})

Balanced(s) ==
    /\ \A k \in 1..Len(s) : Depth(s, k) >= 0
    /\ Depth(s, Len(s)) = 0

\* s without one separator at its very start and one at its very end.
Trimmed(s, seps) ==
    LET lo == IF Len(s) >= 1 /\ s[1] \in seps THEN 2 ELSE 1
        hi == IF Len(s) >= lo /\ s[Len(s)] \in seps THEN Len(s) - 1 ELSE Len(s)
    IN  SubSeq(s, lo, hi)

\* The positions of t holding a separator at parenthesis depth 0.
TopLevelCuts(t, seps) == {i \in 1..Len(t) : t[i] \in seps /\ Depth(t, i - 1) = 0}

\* t cut in front of every position of the set cuts.
SegmentsAt(t, cuts) ==
    LET c == SortedSeq(cuts) \o <<Len(t) + 1>>
    IN  <<SubSeq(t, 1, c[1] - 1)>>
        \o [k \in 1..(Len(c) - 1) |-> SubSeq(t, c[k], c[k + 1] - 1)]

WithoutLeading(m, ch) == IF Len(m) >= 1 /\ m[1] = ch THEN SubSeq(m, 2, Len(m)) ELSE m

ExpectedPlaySplit(play) ==
    LET t      == Trimmed(play, PlaySeparators)
        segs   == SegmentsAt(t, TopLevelCuts(t, PlaySeparators))
        n      == Len(segs)
        hasAdv == Len(segs[n]) >= 1 /\ segs[n][1] = "."
        mods   == IF hasAdv THEN SubSeq(segs, 2, n - 1) ELSE SubSeq(segs, 2, n)
    IN  [event |-> segs[1],
         mods  |-> [k \in 1..Len(mods) |-> WithoutLeading(mods[k], "/")],
         advs  |-> IF hasAdv THEN SplitOnChar(WithoutLeading(segs[n], "."), ";")
                   ELSE <<>>]

\* The positions of t at which a sub-event starts: behind a depth-0 '+', and
\* behind a ')' that closed to depth 0 when the next character is not '('.
SubeventStarts(t) ==
    TopLevelCuts(t, PlusSeparator)
    \cup {i \in 2..Len(t) : /\ t[i - 1] = ")"
                            /\ Depth(t, i - 1) = 0
                            /\ t[i] # "("}

ExpectedSubevents(event) ==
    LET t      == Trimmed(event, PlusSeparator)
        pieces == SegmentsAt(t, SubeventStarts(t))
    IN  [k \in 1..Len(pieces) |-> WithoutLeading(pieces[k], "+")]

\* The event without its '+' characters at depth 0.
WithoutTopLevelPlus(event) ==
    LET keep == {i \in 1..Len(event) : ~(event[i] = "+" /\ Depth(event, i - 1) = 0)}
        idx  == SortedSeq(keep)
    IN  [k \in 1..Len(idx) |-> event[idx[k]]]

SplitterFns ==
    {"split_sep_rspct_paren", "_event_splitter", "_subevent_splitter", "_playSplitter"}

\* C6: each of split_sep_rspct_paren, _event_splitter, _subevent_splitter and
\* _playSplitter raises "Syntax error" (and returns nothing) exactly when the
\* parenthesis depth of its input goes negative somewhere or ends above zero;
\* on a balanced string none of them raises.
C6_RaisesIffUnbalanced ==
    (pc = "done" /\ fn \in SplitterFns) =>
        /\ output.raised <=> ~Balanced(input)
        /\ output.raised => output = Raise("Syntax error")

\* "46(1" handed to _playSplitter raised.
C6_Witness ==
    /\ pc = "done"
    /\ fn = "_playSplitter"
    /\ input = Event46Open
    /\ output = Raise("Syntax error")

\* C7: on a balanced play string _playSplitter cuts only at '/' and '.' at
\* parenthesis depth 0; event is the first segment; when the last segment
\* begins with '.', advs is that segment without the '.' split on ';' and mods
\* are the segments in between, otherwise advs is empty and mods are all the
\* segments after event; every modifier loses its leading '/'.
C7_PlaySplitterSegments ==
    (pc = "done" /\ fn = "_playSplitter" /\ Balanced(input)) =>
        /\ ~output.raised
        /\ output.value = ExpectedPlaySplit(input)

\* "K+WP/X(.;/).1-2;B-1": separators inside the bracket do not cut.
C7_Witness ==
    /\ pc = "done"
    /\ fn = "_playSplitter"
    /\ input = PlayLong
    /\ output = Return([event |-> <<"K", "+", "W", "P">>,
                        mods  |-> << <<"X", "(", ".", ";", "/", ")">> >>,
                        advs  |-> << <<"1", "-", "2">>, <<"B", "-", "1">> >>])

\* C8: on a balanced event _subevent_splitter returns one or more sub-events:
\* the event cut at every depth-0 '+' and behind every ')' that closed to
\* depth 0 and is not followed by '('; no sub-event keeps a leading or
\* trailing '+', and the sub-events concatenated give the event without its
\* depth-0 '+'.
C8_SubeventSplitter ==
    (pc = "done" /\ fn = "_subevent_splitter" /\ Balanced(input)) =>
        /\ ~output.raised
        /\ Len(output.value) >= 1
        /\ output.value = ExpectedSubevents(input)
        /\ \A k \in 1..Len(output.value) :
               LET sub == output.value[k]
               IN  sub # <<>> => sub[1] # "+" /\ sub[Len(sub)] # "+"
        /\ Flatten(output.value) = WithoutTopLevelPlus(input)

\* "46(1)(E6)63" gives ["46(1)(E6)", "63"].
C8_Witness ==
    /\ pc = "done"
    /\ fn = "_subevent_splitter"
    /\ input = Event46
    /\ output = Return(<< <<"4", "6", "(", "1", ")", "(", "E", "6", ")">>,
                          <<"6", "3">> >>)

----------------------------------------------------------------------------
(* Properties of the classifier.                                           *)

\* "PO" b, optionally followed by a bracketed fielder list without error code.
PickOffStrings(b) ==
    {<<"P", "O", b>>}
    \cup {<<"P", "O", b, "(">> \o ds \o <<")">> : ds \in FielderLists \ {<<>>}}

\* "PO" b followed by a bracketed fielder list that carries an error code.
PickOffErrorStrings(b) ==
    {<<"P", "O", b, "(">> \o ds \o <<"E", d, ")">> :
         ds \in FielderLists, d \in FielderDigits}

\* C4: a sub-event PO[1-3] whose optional bracketed fielder list has no error
\* code is classified Picked Off Base with playersOut exactly the picked-off
\* base; with an error code E# in the list it is Picked Off Base - Error with
\* nobody out.
C4_PickedOffBase ==
    (pc = "done" /\ fn = "_subeventParser") =>
        \A b \in {"1", "2", "3"} :
            /\ input \in PickOffStrings(b) =>
                   /\ output.value.basicPlay = "Picked Off Base"
                   /\ output.value.playersOut = << <<b>> >>
            /\ input \in PickOffErrorStrings(b) =>
                   /\ output.value.basicPlay = "Picked Off Base - Error"
                   /\ output.value.playersOut = <<>>

\* C5: a sub-event that begins with H not followed by P (H alone included) is
\* classified Home Run with implicit advance B-H and nobody out; one that
\* begins with HP is Hit by Pitch with implicit advance B-1.
C5_HomeRun ==
    (pc = "done" /\ fn = "_subeventParser" /\ Len(input) >= 1 /\ input[1] = "H") =>
        IF Len(input) >= 2 /\ input[2] = "P"
        THEN /\ output.value.basicPlay = "Hit by Pitch"
             /\ output.value.implicitAdvances = <<AdvB1>>
        ELSE /\ output.value.basicPlay = "Hit - Home Run"
             /\ output.value.implicitAdvances = <<AdvBH>>
             /\ output.value.playersOut = <<>>

----------------------------------------------------------------------------
(* Properties of the aggregation.                                          *)

Returned(name) == pc = "done" /\ fn = name /\ ~output.raised

\* A successful advance f-d.
SafeToken(t) == Len(t) >= 3 /\ t[2] = "-"

\* An out attempt fXd.
OutToken(t) == Len(t) >= 3 /\ t[2] = "X"

\* The token carries an error annotation E#.
ErrorAnnotated(t) == \E k \in 4..(Len(t) - 1) : t[k] = "E" /\ t[k + 1] \in Digits19

\* No two explicit tokens start at the same base.
DistinctSources(advs) ==
    \A i, j \in 1..Len(advs) : i # j => advs[i][1] # advs[j][1]

SubeventOuts(row) ==
    UNION {SeqRange(row.subeventParsed[k].playersOut) : k \in 1..Len(row.subeventParsed)}

\* C1: when the explicit tokens name each starting base at most once, every
\* explicit token f-d or fXd...E# gives the entry f -> d of the final advance
\* map, whatever the implicit advances are, and runsScored counts the entries
\* whose destination is H.
C1_ExplicitAdvancesKept ==
    Returned("enhancePlays") =>
        \A r \in 1..Len(output.value) :
            LET row  == output.value[r]
                advs == row.playSplit.advs
                adv  == row.playerAdvances
            IN  DistinctSources(advs) =>
                    /\ \A k \in 1..Len(advs) :
                           (SafeToken(advs[k]) \/ (OutToken(advs[k]) /\ ErrorAnnotated(advs[k])))
                           => /\ <<advs[k][1]>> \in DOMAIN adv
                              /\ adv[<<advs[k][1]>>] = <<advs[k][3]>>
                    /\ row.runsScored =
                           Cardinality({f \in DOMAIN adv : adv[f] = <<"H">>})

\* What playersOut is to be: the sub-events' outs and the sources of the
\* out tokens without error, less the sources of the error-annotated out
\* tokens and of the successful advances.
ExpectedPlayersOut(row) ==
    LET advs == SeqRange(row.playSplit.advs)
    IN  (SubeventOuts(row)
         \cup {<<t[1]>> : t \in {u \in advs : OutToken(u) /\ ~ErrorAnnotated(u)}})
        \ {<<t[1]>> : t \in {u \in advs : (OutToken(u) /\ ErrorAnnotated(u)) \/ SafeToken(u)}}

\* C2: playersOut is the union of the sub-events' playersOut and the sources
\* of the explicit out tokens fXd without error annotation, minus the sources
\* of the error-annotated out tokens and of the successful advances; the
\* source of an error-annotated out token is never in playersOut.
C2_PlayersOutReconciled ==
    Returned("enhancePlays") =>
        \A r \in 1..Len(output.value) :
            LET row == output.value[r]
            IN  /\ row.playersOut = ExpectedPlayersOut(row)
                /\ \A k \in 1..Len(row.playSplit.advs) :
                       LET t == row.playSplit.advs[k]
                       IN  (OutToken(t) /\ ErrorAnnotated(t)) => <<t[1]>> \notin row.playersOut

\* CS2(26).1X2(E5): the sub-event puts the runner from first out, the
\* error-annotated token takes that out back.
C2_Witness ==
    /\ Returned("enhancePlays")
    /\ \E r \in 1..Len(output.value) :
           LET row == output.value[r]
           IN  /\ row.Play = <<"C", "S", "2", "(", "2", "6", ")", ".",
                               "1", "X", "2", "(", "E", "5", ")">>
               /\ <<"1">> \in SubeventOuts(row)
               /\ row.playersOut = {}

TwoOuts(row) ==
    /\ Len(row.subeventParsed) = 2
    /\ \A k \in 1..2 : row.subeventParsed[k].basicPlay = "Out"

\* C3 as stated: a play of exactly two sub-events, both Out, is a Double Play
\* with outsOnPlay = 2, whatever the bracketed bases and the advances clause.
C3_TwoOutsGiveTwo ==
    Returned("enhancePlays") =>
        \A r \in 1..Len(output.value) :
            LET row == output.value[r]
            IN  TwoOuts(row) => row.basicPlayDesc = "Double Play" /\ row.outsOnPlay = 2

\* The advances clause leaves the two outs of the sub-events as they are: no
\* out token without error from another base, no successful or
\* error-annotated token from a base the sub-events put out.
AdvancesKeepOuts(row) ==
    \A k \in 1..Len(row.playSplit.advs) :
        LET t == row.playSplit.advs[k]
        IN  IF OutToken(t) /\ ~ErrorAnnotated(t)
            THEN <<t[1]>> \in SubeventOuts(row)
            ELSE <<t[1]>> \notin SubeventOuts(row)

\* C3 amended: a play of exactly two sub-events, both Out, is a Double Play
\* and outsOnPlay is the size of the reconciled playersOut; it is 2 when the
\* two sub-events put out different bases and the advances clause neither
\* adds an out from another base nor takes one of the two outs back.
C3_TwoOutsAmended ==
    Returned("enhancePlays") =>
        \A r \in 1..Len(output.value) :
            LET row == output.value[r]
            IN  TwoOuts(row) =>
                    /\ row.basicPlayDesc = "Double Play"
                    /\ row.outsOnPlay = Cardinality(row.playersOut)
                    /\ (Cardinality(SubeventOuts(row)) = 2 /\ AdvancesKeepOuts(row))
                           => row.outsOnPlay = 2

\* 64(1)3.2-H: runner from first and batter out, the runner from second scores.
C3_Witness ==
    /\ Returned("enhancePlays")
    /\ \E r \in 1..Len(output.value) :
           LET row == output.value[r]
           IN  /\ row.Play = <<"6", "4", "(", "1", ")", "3", ".", "2", "-", "H">>
               /\ TwoOuts(row)
               /\ row.basicPlayDesc = "Double Play"
               /\ row.playersOut = {<<"1">>, <<"B">>}
               /\ row.outsOnPlay = 2

\* C9: when one play of a game has unbalanced brackets, enhancePlays still
\* produces the derived record of every other play of the game.
C9_FailureConfinedToPlay ==
    (pc = "done" /\ fn = "enhancePlays") =>
        \A r \in 1..Len(input) :
            Balanced(input[r].Play) =>
                /\ ~output.raised
                /\ \E k \in 1..Len(output.value) : output.value[k].Play = input[r].Play

----------------------------------------------------------------------------
(* Properties of the formatter.                                            *)

\* The text of a com line: what stands between the quotes behind "com,".
FullText(j) ==
    LET body == SubSeq(j, 5, Len(j))
    IN  IF Len(body) >= 2 /\ body[1] = "\"" /\ body[Len(body)] = "\""
        THEN SubSeq(body, 2, Len(body) - 1) ELSE body

\* The com lines that follow the play line at position p of lst before the
\* next play line, in file order.
CommentsAfter(lst, p) ==
    LET idx == SortedSeq({m \in (p + 1)..Len(lst) :
                   /\ IsLine(lst[m], LitCom)
                   /\ \A q \in (p + 1)..m : ~IsLine(lst[q], LitPlay)})
    IN  [k \in 1..Len(idx) |-> lst[idx[k]]]

\* C10: the plays table has one row per play line and none for a com line;
\* the Comment of each row is the space-joined full text, in file order, of
\* exactly the com lines between that play line and the next one (empty when
\* there is none), and com lines before the first play line go to no play.
C10_CommentsAttached ==
    Returned("RetrosheetEventFormatter") =>
        LET playIdx == SortedSeq({m \in 1..Len(input) : IsLine(input[m], LitPlay)})
            plays   == output.value.plays
        IN  /\ Len(plays) = Len(playIdx)
            /\ \A k \in 1..Len(plays) :
                   LET coms == CommentsAfter(input, playIdx[k])
                   IN  /\ plays[k][1] = LitPlay
                       /\ plays[k][8] = JoinWith([c \in 1..Len(coms) |-> FullText(coms[c])], " ")

====
